---------------------------- MODULE Spec2Model ----------------------------
(***************************************************************************)
(* Model of the contacts-management backend: the /auth handlers            *)
(* (src/api/auth.py), the user repository (src/repository/users.py), the   *)
(* contact service (src/services/contacts.py) and the unique constraints   *)
(* of the two tables (alembic/versions/aaeab1c5bffb_init.py).              *)
(*                                                                         *)
(* Every request runs on its own database session (get_db).  A handler is  *)
(* a coroutine: it is split into one action per stretch of code between    *)
(* two awaits that touch the database, so handlers of different sessions   *)
(* interleave exactly at those points.                                     *)
(***************************************************************************)
EXTENDS Naturals, Sequences, FiniteSets

\* ------------------------------------------------------------- bounds
\* How many distinct usernames clients submit.
NUsernames == 2
\* How many contact ids the contact store hands out.
MaxContactId == 2

\* ------------------------------------------------------------- inputs
NameSeq == <<"alice", "bob", "carol">>
Usernames == {NameSeq[i] : i \in 1..NUsernames}
Emails == {"a@x.com", "b@x.com"}
Passwords == {"secret1"}
\* What a login may try: a registered password or a wrong one.
LoginPasswords == Passwords \cup {"guess"}
AvatarUrls == {"url1"}
ContactNames == {"Bob"}
ContactEmails == {"bob@x.com", "eve@x.com"}
Phones == {"+15551234567", "+15557654321"}
\* One request runs per session; sessions run concurrently.
Sessions == {"s1", "s2"}

VARIABLES
    users,          \* table users: sequence of rows, id = position
    contacts,       \* table contacts: set of rows
    next_contact_id,\* the contacts id sequence
    pc,             \* per session: where its handler stands
    req,            \* per session: the request being served
    loc,            \* per session: the handler's local variables
    resp,           \* per session: the response sent
    log,            \* password fields of the records written by logger/print
    outbox,         \* emails a verification mail (token) was scheduled for
    confirm_calls   \* emails for which confirmed_email ran with a valid token

vars == <<users, contacts, next_contact_id, pc, req, loc, resp, log, outbox,
          confirm_calls>>
userVars == <<users, log, outbox, confirm_calls>>
contactVars == <<contacts, next_contact_id>>

\* ------------------------------------------------------------- helpers
NoToken == [sub |-> "", valid |-> FALSE]
NoReq == [op |-> "", username |-> "", email |-> "", password |-> "",
          token |-> NoToken, url |-> "", contact_id |-> 0, phone |-> "",
          name |-> "", owner |-> 0]
NoLoc == [existing_user_by_email |-> 0, existing_user_by_username |-> 0,
          new_user |-> 0, exc |-> "none", committed |-> FALSE,
          rollback |-> FALSE, user |-> 0]
NoResp == [status |-> 0, detail |-> ""]

UserIds == 1..Len(users)

\* The users who can hold a bearer token (the avatar and contact endpoints
\* need one): login gives a token only to a verified user.
Owners == {i \in UserIds : users[i].is_verified}

\* Hash().get_password_hash / verify_password (src/services/auth.py is not
\* in the sources; spec 4.1: a one-way hash, verify(p, hash(q)) iff p = q).
get_password_hash(p) == "$2b$" \o p
verify_password(p, h) == h = get_password_hash(p)

\* scalar_one_or_none() of the select: the id of the row, 0 for None.
get_user_by_username(username) ==
    IF \E i \in UserIds : users[i].username = username
    THEN CHOOSE i \in UserIds : users[i].username = username
    ELSE 0

get_user_by_email(email) ==
    IF \E i \in UserIds : users[i].email = email
    THEN CHOOSE i \in UserIds : users[i].email = email
    ELSE 0

\* Table users without its unique constraints.
UniqueViolationOff(u) == FALSE

\* UniqueConstraint('email'), UniqueConstraint('username') of table users:
\* the commit of row u is rejected (IntegrityError).
UniqueViolation(u) ==
    \E i \in UserIds :
        users[i].email = u.email \/ users[i].username = u.username

\* get_email_from_token (src/services/auth.py is not in the sources;
\* spec 4.2: decode fails if the signature is invalid or the token expired).
get_email_from_token(token) == IF token.valid THEN token.sub ELSE ""

\* The handler of session p ends: the response is sent.
Finish(p, status, detail) ==
    /\ pc' = [pc EXCEPT ![p] = "done"]
    /\ resp' = [resp EXCEPT ![p] = [status |-> status, detail |-> detail]]

\* ------------------------------------------------------------- init
Init ==
    /\ users = <<>>
    /\ contacts = {}
    /\ next_contact_id = 1
    /\ pc = [p \in Sessions |-> "idle"]
    /\ req = [p \in Sessions |-> NoReq]
    /\ loc = [p \in Sessions |-> NoLoc]
    /\ resp = [p \in Sessions |-> NoResp]
    /\ log = {}
    /\ outbox = {}
    /\ confirm_calls = {}

\* ------------------------------------------------------------- register
\* register_user up to the first pre-check: the request is logged and
\* printed with its password field, then the email lookup.  An
\* HTTPException(409) raised inside the try is caught by `except Exception`
\* and replaced by the 500.
RegisterBegin(p, username, email, password) ==
    /\ pc[p] = "idle"
    /\ req' = [req EXCEPT ![p] = [NoReq EXCEPT !.op = "register",
                  !.username = username, !.email = email,
                  !.password = password]]
    /\ log' = log \cup {[logger |-> "api", password |-> password],
                        [logger |-> "print", password |-> password]}
    /\ LET found == get_user_by_email(email) IN
       IF found # 0
       THEN /\ loc' = [loc EXCEPT ![p] = [NoLoc EXCEPT
                          !.existing_user_by_email = found,
                          !.exc = "HTTPException409"]]
            /\ Finish(p, 500, "Internal server error")
       ELSE /\ loc' = [loc EXCEPT ![p] = NoLoc]
            /\ pc' = [pc EXCEPT ![p] = "reg_username"]
            /\ resp' = [resp EXCEPT ![p] = NoResp]
    /\ UNCHANGED <<users, outbox, confirm_calls, contactVars>>

\* The username pre-check of register_user.
RegisterCheckUsername(p) ==
    /\ pc[p] = "reg_username"
    /\ LET found == get_user_by_username(req[p].username) IN
       IF found # 0
       THEN /\ loc' = [loc EXCEPT ![p].existing_user_by_username = found,
                                  ![p].exc = "HTTPException409"]
            /\ Finish(p, 500, "Internal server error")
       ELSE /\ pc' = [pc EXCEPT ![p] = "reg_create"]
            /\ UNCHANGED <<loc, resp>>
    /\ UNCHANGED <<req, userVars, contactVars>>

\* user.password = hash; UserRepository.create_user up to the commit.  The
\* commit either succeeds, or is rejected by a unique constraint, or fails
\* for another reason (connection lost); on failure the repository rolls
\* back and re-raises, and register_user turns the exception into the 500.
RegisterCreate(p) ==
    /\ pc[p] = "reg_create"
    /\ LET hashed == get_password_hash(req[p].password)
           db_user == [username |-> req[p].username, email |-> req[p].email,
                       hashed_password |-> hashed, is_verified |-> FALSE,
                       avatar_url |-> ""]
       IN
       /\ req' = [req EXCEPT ![p].password = hashed]
       /\ log' = log \cup {[logger |-> "repository", password |-> hashed]}
       /\ \/ /\ ~UniqueViolation(db_user)
             /\ users' = Append(users, db_user)
             /\ loc' = [loc EXCEPT ![p].new_user = Len(users) + 1,
                                   ![p].committed = TRUE]
             /\ pc' = [pc EXCEPT ![p] = "reg_refresh"]
             /\ UNCHANGED resp
          \/ /\ UniqueViolation(db_user)
             /\ loc' = [loc EXCEPT ![p].exc = "IntegrityError",
                                   ![p].rollback = TRUE]
             /\ Finish(p, 500, "Internal server error")
             /\ UNCHANGED users
          \/ /\ loc' = [loc EXCEPT ![p].exc = "OperationalError",
                                   ![p].rollback = TRUE]
             /\ Finish(p, 500, "Internal server error")
             /\ UNCHANGED users
    /\ UNCHANGED <<outbox, confirm_calls, contactVars>>

\* create_user's refresh, then the rest of register_user: the verification
\* mail is scheduled and the user returned (201).  A failing refresh runs
\* the same except branch: rollback (of nothing: the row is committed) and
\* re-raise, which register_user answers with the 500.
RegisterRefresh(p) ==
    /\ pc[p] = "reg_refresh"
    /\ \/ /\ outbox' = outbox \cup {req[p].email}
          /\ Finish(p, 201, "created")
          /\ UNCHANGED loc
       \/ /\ loc' = [loc EXCEPT ![p].exc = "OperationalError",
                                ![p].rollback = TRUE]
          /\ Finish(p, 500, "Internal server error")
          /\ UNCHANGED outbox
    /\ UNCHANGED <<req, users, log, confirm_calls, contactVars>>

\* ------------------------------------------------------------- login
\* login_user after the lookup, with the is_verified check left out.
login_user_unverified_ok(p, db_user, password) ==
    IF db_user = 0
       \/ ~verify_password(password, users[db_user].hashed_password)
    THEN Finish(p, 401, "Incorrect login or password")
    ELSE Finish(p, 200, "access_token")

\* login_user after the lookup: the credential check, the is_verified
\* check, the access token.
login_user(p, db_user, password) ==
    IF db_user = 0
       \/ ~verify_password(password, users[db_user].hashed_password)
    THEN Finish(p, 401, "Incorrect login or password")
    ELSE IF ~users[db_user].is_verified
    THEN Finish(p, 401, "Email not verified")
    ELSE Finish(p, 200, "access_token")

LoginUser(p, username, password) ==
    /\ pc[p] = "idle"
    /\ req' = [req EXCEPT ![p] = [NoReq EXCEPT !.op = "login",
                  !.username = username, !.password = password]]
    /\ LET db_user == get_user_by_username(username) IN
       /\ loc' = [loc EXCEPT ![p] = [NoLoc EXCEPT !.user = db_user]]
       /\ login_user(p, db_user, password)
    /\ UNCHANGED <<userVars, contactVars>>

\* ------------------------------------------------------------- confirm
\* The handler confirmed_email after its lookup, with the "already
\* verified" branch left out.
confirm_no_verified_check(p, user) ==
    IF user = 0
    THEN Finish(p, 400, "Verification error")
    ELSE /\ pc' = [pc EXCEPT ![p] = "confirm_commit"]
         /\ resp' = [resp EXCEPT ![p] = NoResp]

\* The handler confirmed_email after its lookup: no user, already verified,
\* or on to service.confirm_email.
confirm(p, user) ==
    IF user = 0
    THEN Finish(p, 400, "Verification error")
    ELSE IF users[user].is_verified
    THEN Finish(p, 200, "Your email is already verified")
    ELSE /\ pc' = [pc EXCEPT ![p] = "confirm_commit"]
         /\ resp' = [resp EXCEPT ![p] = NoResp]

\* The handler confirmed_email up to service.confirm_email.  A client
\* presents a token the server mailed (still valid, or expired by now).
ConfirmBegin(p, token) ==
    /\ pc[p] = "idle"
    /\ req' = [req EXCEPT ![p] = [NoReq EXCEPT !.op = "confirm",
                  !.token = token]]
    /\ IF ~token.valid
       THEN /\ loc' = [loc EXCEPT ![p] = NoLoc]
            /\ Finish(p, 400, "Invalid token")
            /\ UNCHANGED confirm_calls
       ELSE LET email == get_email_from_token(token)
                user == get_user_by_email(email)
            IN
            /\ confirm_calls' = confirm_calls \cup {email}
            /\ loc' = [loc EXCEPT ![p] = [NoLoc EXCEPT !.user = user]]
            /\ confirm(p, user)
    /\ UNCHANGED <<users, log, outbox, contactVars>>

\* UserRepository.confirmed_email: lookup, set the flag, commit.  Nothing
\* catches a failing commit: no rollback is issued and the exception
\* leaves the handler (500).
confirmed_email(p, email) ==
    LET user == get_user_by_email(email) IN
    IF user = 0
    THEN /\ Finish(p, 200, "Email verified successfully")
         /\ UNCHANGED <<users, loc>>
    ELSE \/ /\ users' = [users EXCEPT ![user].is_verified = TRUE]
            /\ loc' = [loc EXCEPT ![p].committed = TRUE]
            /\ Finish(p, 200, "Email verified successfully")
         \/ /\ loc' = [loc EXCEPT ![p].exc = "OperationalError"]
            /\ Finish(p, 500, "Internal Server Error")
            /\ UNCHANGED users

ConfirmCommit(p) ==
    /\ pc[p] = "confirm_commit"
    /\ confirmed_email(p, get_email_from_token(req[p].token))
    /\ UNCHANGED <<req, log, outbox, confirm_calls, contactVars>>

\* ------------------------------------------------------------- resend
\* request_email: one lookup; a mail is scheduled for an unverified user.
RequestEmail(p, email) ==
    /\ pc[p] = "idle"
    /\ req' = [req EXCEPT ![p] = [NoReq EXCEPT !.op = "request_email",
                  !.email = email]]
    /\ LET user == get_user_by_email(email) IN
       /\ loc' = [loc EXCEPT ![p] = [NoLoc EXCEPT !.user = user]]
       /\ IF user # 0 /\ users[user].is_verified
          THEN /\ Finish(p, 200, "Your email is already verified")
               /\ UNCHANGED outbox
          ELSE /\ outbox' = IF user # 0 THEN outbox \cup {users[user].email}
                            ELSE outbox
               /\ Finish(p, 200, "Check your email for verification")
    /\ UNCHANGED <<users, log, confirm_calls, contactVars>>

\* ------------------------------------------------------------- avatar
\* UserRepository.update_avatar_url, called for the authenticated user:
\* lookup and assignment, then the commit (which may fail; nothing catches
\* it, no rollback) ...
UpdateAvatarBegin(p, email, url) ==
    /\ pc[p] = "idle"
    /\ req' = [req EXCEPT ![p] = [NoReq EXCEPT !.op = "update_avatar",
                  !.email = email, !.url = url]]
    /\ LET user == get_user_by_email(email) IN
       /\ user \in Owners
       /\ \/ /\ users' = [users EXCEPT ![user].avatar_url = url]
             /\ loc' = [loc EXCEPT ![p] = [NoLoc EXCEPT !.user = user,
                           !.committed = TRUE]]
             /\ pc' = [pc EXCEPT ![p] = "avatar_refresh"]
             /\ resp' = [resp EXCEPT ![p] = NoResp]
          \/ /\ loc' = [loc EXCEPT ![p] = [NoLoc EXCEPT !.user = user,
                           !.exc = "OperationalError"]]
             /\ Finish(p, 500, "Internal Server Error")
             /\ UNCHANGED users
    /\ UNCHANGED <<log, outbox, confirm_calls, contactVars>>

\* ... and the refresh that follows the commit.
UpdateAvatarRefresh(p) ==
    /\ pc[p] = "avatar_refresh"
    /\ \/ /\ Finish(p, 200, "avatar updated")
          /\ UNCHANGED loc
       \/ /\ loc' = [loc EXCEPT ![p].exc = "OperationalError"]
          /\ Finish(p, 500, "Internal Server Error")
    /\ UNCHANGED <<req, userVars, contactVars>>

\* ------------------------------------------------------------- session
\* get_db: the session is released when the request ends.
Release(p) ==
    /\ pc[p] = "done"
    /\ pc' = [pc EXCEPT ![p] = "idle"]
    /\ req' = [req EXCEPT ![p] = NoReq]
    /\ loc' = [loc EXCEPT ![p] = NoLoc]
    /\ resp' = [resp EXCEPT ![p] = NoResp]
    /\ UNCHANGED <<userVars, contactVars>>

Tokens == {[sub |-> e, valid |-> v] : e \in outbox, v \in BOOLEAN}

Next ==
    \E p \in Sessions :
        \/ \E u \in Usernames, e \in Emails, pw \in Passwords :
               RegisterBegin(p, u, e, pw)
        \/ RegisterCheckUsername(p)
        \/ RegisterCreate(p)
        \/ RegisterRefresh(p)
        \/ \E u \in Usernames, pw \in LoginPasswords : LoginUser(p, u, pw)
        \/ \E t \in Tokens : ConfirmBegin(p, t)
        \/ ConfirmCommit(p)
        \/ \E e \in Emails : RequestEmail(p, e)
        \/ \E e \in Emails, url \in AvatarUrls : UpdateAvatarBegin(p, e, url)
        \/ UpdateAvatarRefresh(p)
        \/ Release(p)

Spec == Init /\ [][Next]_vars

\* ------------------------------------------------------------- contacts
\* ContactRepository (src/repository/contacts.py) is not in the sources; its
\* five operations follow spec 4.4.
ContactIds == 1..MaxContactId

\* "a contact with the same email or phone already exists (globally, not
\* just for this owner)"
is_contact_exists(email, phone, user) ==
    \E c \in contacts : c.email = email \/ c.phone = phone

\* "no contact with that id exists under that owner": the row, or NoContact.
NoContact == [id |-> 0, name |-> "", email |-> "", phone |-> "",
              user_id |-> 0]
get_contact_by_id(contact_id, user) ==
    IF \E c \in contacts : c.id = contact_id /\ c.user_id = user
    THEN CHOOSE c \in contacts : c.id = contact_id /\ c.user_id = user
    ELSE NoContact

\* UniqueConstraint('email'), UniqueConstraint('phone') of table contacts:
\* writing row c is rejected (IntegrityError) when another row holds its
\* email or its phone.
ContactUniqueViolation(c) ==
    \E d \in contacts :
        d.id # c.id /\ (d.email = c.email \/ d.phone = c.phone)

\* How many creates have passed the pre-check and not yet inserted.
PendingInserts == Cardinality({p \in Sessions : pc[p] = "contact_insert"})

\* ContactService.create_contact with the pre-check left out.
create_contact_no_check(p, body, user) ==
    /\ pc' = [pc EXCEPT ![p] = "contact_insert"]
    /\ resp' = [resp EXCEPT ![p] = NoResp]

\* ContactService.create_contact up to repository.create_contact: the
\* pre-check, answered with the 400.
create_contact(p, body, user) ==
    IF is_contact_exists(body.email, body.phone, user)
    THEN Finish(p, 400, "Contact already exists")
    ELSE /\ pc' = [pc EXCEPT ![p] = "contact_insert"]
         /\ resp' = [resp EXCEPT ![p] = NoResp]

ContactCreateBegin(p, user, name, email, phone) ==
    /\ pc[p] = "idle"
    /\ user \in Owners
    /\ next_contact_id + PendingInserts <= MaxContactId
    /\ req' = [req EXCEPT ![p] = [NoReq EXCEPT !.op = "create_contact",
                  !.owner = user, !.name = name, !.email = email,
                  !.phone = phone]]
    /\ loc' = [loc EXCEPT ![p] = NoLoc]
    /\ create_contact(p, [name |-> name, email |-> email, phone |-> phone],
                      user)
    /\ UNCHANGED <<userVars, contactVars>>

\* repository.create_contact: the insert.  The table's unique constraints
\* reject a row whose email or phone a concurrent request has committed;
\* nothing catches that error (500).
ContactCreateInsert(p) ==
    /\ pc[p] = "contact_insert"
    /\ LET c == [id |-> next_contact_id, name |-> req[p].name,
                 email |-> req[p].email, phone |-> req[p].phone,
                 user_id |-> req[p].owner]
       IN
       IF ContactUniqueViolation(c)
       THEN /\ loc' = [loc EXCEPT ![p].exc = "IntegrityError"]
            /\ Finish(p, 500, "Internal Server Error")
            /\ UNCHANGED contactVars
       ELSE /\ contacts' = contacts \cup {c}
            /\ next_contact_id' = next_contact_id + 1
            /\ loc' = [loc EXCEPT ![p].committed = TRUE]
            /\ Finish(p, 201, "created")
    /\ UNCHANGED <<req, userVars>>

\* ContactService.get_contact.
get_contact(p, contact_id, user) ==
    LET contact == get_contact_by_id(contact_id, user) IN
    IF contact = NoContact
    THEN Finish(p, 404, "Contact not found")
    ELSE Finish(p, 200, "contact")

ContactGet(p, user, contact_id) ==
    /\ pc[p] = "idle"
    /\ user \in Owners
    /\ req' = [req EXCEPT ![p] = [NoReq EXCEPT !.op = "get_contact",
                  !.owner = user, !.contact_id = contact_id]]
    /\ loc' = [loc EXCEPT ![p] = NoLoc]
    /\ get_contact(p, contact_id, user)
    /\ UNCHANGED <<userVars, contactVars>>

\* ContactService.update_contact: the repository replaces the mutable
\* fields of the owner's contact, or returns None (404).
update_contact(p, contact_id, body, user) ==
    LET contact == get_contact_by_id(contact_id, user)
        updated == [contact EXCEPT !.name = body.name, !.email = body.email,
                                   !.phone = body.phone]
    IN
    IF contact = NoContact
    THEN /\ Finish(p, 404, "Contact not found")
         /\ loc' = [loc EXCEPT ![p] = NoLoc]
         /\ UNCHANGED contacts
    ELSE IF ContactUniqueViolation(updated)
    THEN /\ Finish(p, 500, "Internal Server Error")
         /\ loc' = [loc EXCEPT ![p] = [NoLoc EXCEPT !.exc = "IntegrityError"]]
         /\ UNCHANGED contacts
    ELSE /\ contacts' = (contacts \ {contact}) \cup {updated}
         /\ loc' = [loc EXCEPT ![p] = [NoLoc EXCEPT !.committed = TRUE]]
         /\ Finish(p, 200, "contact")

ContactUpdate(p, user, contact_id, name, email, phone) ==
    /\ pc[p] = "idle"
    /\ user \in Owners
    /\ req' = [req EXCEPT ![p] = [NoReq EXCEPT !.op = "update_contact",
                  !.owner = user, !.contact_id = contact_id, !.name = name,
                  !.email = email, !.phone = phone]]
    /\ update_contact(p, contact_id,
                      [name |-> name, email |-> email, phone |-> phone], user)
    /\ UNCHANGED <<userVars, next_contact_id>>

\* ContactService.remove_contact not passing the owner on: the contact is
\* looked up by its id alone.
remove_contact_unscoped(p, contact_id, user) ==
    IF \E c \in contacts : c.id = contact_id
    THEN /\ contacts' = {c \in contacts : c.id # contact_id}
         /\ Finish(p, 200, "contact")
    ELSE /\ Finish(p, 404, "Contact not found")
         /\ UNCHANGED contacts

\* ContactService.remove_contact: a hard delete of the owner's contact, or
\* None (404).
remove_contact(p, contact_id, user) ==
    LET contact == get_contact_by_id(contact_id, user) IN
    IF contact = NoContact
    THEN /\ Finish(p, 404, "Contact not found")
         /\ UNCHANGED contacts
    ELSE /\ contacts' = contacts \ {contact}
         /\ Finish(p, 200, "contact")

ContactRemove(p, user, contact_id) ==
    /\ pc[p] = "idle"
    /\ user \in Owners
    /\ req' = [req EXCEPT ![p] = [NoReq EXCEPT !.op = "remove_contact",
                  !.owner = user, !.contact_id = contact_id]]
    /\ loc' = [loc EXCEPT ![p] = NoLoc]
    /\ remove_contact(p, contact_id, user)
    /\ UNCHANGED <<userVars, next_contact_id>>

\* The contact endpoints, served to two registered and verified users (a
\* state Spec reaches: both registered, confirmed, sessions released).
VerifiedUser(username, email) ==
    [username |-> username, email |-> email,
     hashed_password |-> get_password_hash("secret1"), is_verified |-> TRUE,
     avatar_url |-> ""]

InitContacts ==
    /\ users = <<VerifiedUser("alice", "a@x.com"),
                 VerifiedUser("bob", "b@x.com")>>
    /\ contacts = {}
    /\ next_contact_id = 1
    /\ pc = [p \in Sessions |-> "idle"]
    /\ req = [p \in Sessions |-> NoReq]
    /\ loc = [p \in Sessions |-> NoLoc]
    /\ resp = [p \in Sessions |-> NoResp]
    /\ log = {[logger |-> "api", password |-> "secret1"],
              [logger |-> "print", password |-> "secret1"],
              [logger |-> "repository",
               password |-> get_password_hash("secret1")]}
    /\ outbox = {"a@x.com", "b@x.com"}
    /\ confirm_calls = {"a@x.com", "b@x.com"}

NextContacts ==
    \E p \in Sessions :
        \/ \E u \in UserIds, n \in ContactNames, e \in ContactEmails,
              ph \in Phones : ContactCreateBegin(p, u, n, e, ph)
        \/ ContactCreateInsert(p)
        \/ \E u \in UserIds, id \in ContactIds : ContactGet(p, u, id)
        \/ \E u \in UserIds, id \in ContactIds, n \in ContactNames,
              e \in ContactEmails, ph \in Phones :
               ContactUpdate(p, u, id, n, e, ph)
        \/ \E u \in UserIds, id \in ContactIds : ContactRemove(p, u, id)
        \/ Release(p)

SpecContacts == InitContacts /\ [][NextContacts]_vars


\* ------------------------------------------------------------- claims
Done(p, op) == pc[p] = "done" /\ req[p].op = op

\* C1: a register request whose email or username is that of a persisted
\* user (found by one of the two pre-checks) ends with 409 Conflict and
\* adds no user.
C1_DuplicateRegisterIsConflict ==
    \A p \in Sessions :
        ( /\ Done(p, "register")
          /\ \/ loc[p].existing_user_by_email # 0
             \/ loc[p].existing_user_by_username # 0 )
        => (resp[p].status = 409 /\ loc[p].new_user = 0)

\* C2: a login is answered with the access token (200) only for a verified
\* user; a user is verified only after confirmed_email ran with a valid
\* token for that user's email; until then every login for that user, the
\* right password included, is answered with 401.
C2_LoginNeedsConfirmedEmail ==
    /\ \A i \in UserIds :
           users[i].is_verified => users[i].email \in confirm_calls
    /\ \A p \in Sessions :
           Done(p, "login") =>
               LET u == get_user_by_username(req[p].username) IN
               /\ resp[p].status \in {200, 401}
               /\ resp[p].status = 200 =>
                      (u # 0 /\ users[u].is_verified
                       /\ users[u].email \in confirm_calls)
               /\ (u # 0 /\ users[u].email \notin confirm_calls) =>
                      resp[p].status = 401

\* C2's case: a registered, not yet confirmed user logs in with the right
\* password and gets the 401.
C2_UnverifiedLoginRefused ==
    \E p \in Sessions :
        /\ Done(p, "login")
        /\ loc[p].user # 0
        /\ verify_password(req[p].password,
                           users[loc[p].user].hashed_password)
        /\ users[loc[p].user].email \notin confirm_calls
        /\ resp[p] = [status |-> 401, detail |-> "Email not verified"]

\* C3: request_email answers every email with the same status and the same
\* message, whatever the user store holds for it: any two request_email
\* responses are equal.
C3_RequestEmailSameResponse ==
    \A p, q \in Sessions :
        (Done(p, "request_email") /\ Done(q, "request_email"))
        => resp[p] = resp[q]

\* C4: the stored hashed_password is the hasher's output, and no log or
\* print record holds a password as the client submitted it.
C4_NoPlaintextPassword ==
    /\ \A i \in UserIds :
           users[i].hashed_password
               \in {get_password_hash(pw) : pw \in Passwords}
    /\ \A l \in log : l.password \notin Passwords

\* C5: under every interleaving of register requests the user store never
\* holds two users with the same email or the same username.
C5_UniqueUsers ==
    \A i, j \in UserIds :
        i # j => ( /\ users[i].email # users[j].email
                   /\ users[i].username # users[j].username )

\* C5's case: a register passed both pre-checks and its insert was then
\* rejected by a unique constraint (a concurrent register committed first).
C5_RaceRejected ==
    \E p \in Sessions :
        /\ Done(p, "register")
        /\ loc[p].exc = "IntegrityError"
        /\ loc[p].existing_user_by_email = 0
        /\ loc[p].existing_user_by_username = 0
        /\ Len(users) >= 1

\* C6: a register whose insert the unique constraint rejected ends with the
\* 409 Conflict of a duplicate found by the pre-check.
C6_ConstraintRejectionIsConflict ==
    \A p \in Sessions :
        (Done(p, "register") /\ loc[p].exc = "IntegrityError")
        => resp[p].status = 409

\* C7: create_contact, by any owner, is answered with 400 Duplicate and
\* persists nothing whenever some contact, of the same or of another owner,
\* already has the email or the phone.
C7_DuplicateContactRejected ==
    [][ \A p \in Sessions :
          ( /\ pc[p] = "idle"
            /\ req'[p].op = "create_contact"
            /\ \E c \in contacts :
                   c.email = req'[p].email \/ c.phone = req'[p].phone )
          => ( /\ pc'[p] = "done"
               /\ resp'[p].status = 400
               /\ contacts' = contacts ) ]_vars

\* C7's case: a create was refused with the 400 because of a contact of
\* another owner.
C7_ForeignDuplicateRefused ==
    \E p \in Sessions :
        /\ Done(p, "create_contact")
        /\ resp[p].status = 400
        /\ \E c \in contacts :
               /\ c.user_id # req[p].owner
               /\ (c.email = req[p].email \/ c.phone = req[p].phone)
        /\ ~ \E c \in contacts : c.user_id = req[p].owner

\* C8: get, update and remove of a contact by a user who does not own it
\* end with 404 NotFound and leave the contact store as it was.
C8_ForeignContactNotFound ==
    [][ \A p \in Sessions :
          ( /\ pc[p] = "idle"
            /\ req'[p].op \in {"get_contact", "update_contact",
                               "remove_contact"}
            /\ \E c \in contacts :
                   c.id = req'[p].contact_id /\ c.user_id # req'[p].owner )
          => ( /\ pc'[p] = "done"
               /\ resp'[p].status = 404
               /\ contacts' = contacts ) ]_vars

\* C8's case: a remove of another user's contact got the 404 and the
\* contact is still there.
C8_ForeignRemoveRefused ==
    \E p \in Sessions :
        /\ Done(p, "remove_contact")
        /\ resp[p].status = 404
        /\ \E c \in contacts :
               c.id = req[p].contact_id /\ c.user_id # req[p].owner

\* C9: is_verified never goes back to false, and a confirmed_email for a
\* user who is verified already reports that and changes no user.
C9_VerifiedOneWay ==
    [][ /\ \A i \in UserIds :
               users[i].is_verified =>
                   ( /\ i <= Len(users')
                     /\ users'[i].is_verified
                     /\ users'[i].email = users[i].email )
        /\ \A p \in Sessions :
               ( /\ pc[p] = "idle"
                 /\ req'[p].op = "confirm"
                 /\ req'[p].token.valid
                 /\ \E i \in UserIds :
                        /\ users[i].email = req'[p].token.sub
                        /\ users[i].is_verified )
               => ( /\ pc'[p] = "done"
                    /\ resp'[p] = [status |-> 200,
                           detail |-> "Your email is already verified"]
                    /\ users' = users ) ]_vars

\* C9's case: a confirmation of a verified user was answered "already
\* verified".
C9_RepeatConfirmation ==
    \E p \in Sessions :
        /\ Done(p, "confirm")
        /\ resp[p].detail = "Your email is already verified"
        /\ users[loc[p].user].is_verified

\* C10: when the commit or the refresh of create_user, confirmed_email or
\* update_avatar_url fails, the transaction is rolled back before the error
\* leaves the repository and nothing of the operation is persisted.
C10_FailedWriteRolledBack ==
    \A p \in Sessions :
        ( /\ pc[p] = "done"
          /\ req[p].op \in {"register", "confirm", "update_avatar"}
          /\ loc[p].exc \in {"IntegrityError", "OperationalError"} )
        => (loc[p].rollback /\ ~loc[p].committed)


=============================================================================
